---- MODULE Spec2Model ----
(***************************************************************************)
(* AnimatedGifTexture (src/src/animatedGifTexture.ts) and its patch shader *)
(* (src/unnamed/part_000) as a state machine.                              *)
(*                                                                         *)
(* One action per handler: the asynchronous load callback, the per-tick    *)
(* render loop callback (_renderFrame with its call of _drawPatch),        *)
(* dispose, and the environment steps the handlers depend on (the clock,   *)
(* the shader compilation finishing, the fetch failing).                   *)
(***************************************************************************)
EXTENDS Integers, Sequences, FiniteSets, TLC

\* ------------------------------------------------------------------ bounds
MaxFrames == 2      \* longest decoded frame sequence
MaxDelay == 2       \* largest frame delay, in clock units
MaxTime == 3        \* last clock reading
MaxDim == 2         \* largest patch width / height, in pixels
MaxOff == 1         \* largest patch left / top offset, in pixels
MaxHoles == 1       \* most transparent texels in one patch
MaxAdvances == 4    \* the advance counter saturates here
MaxDraws == 2       \* the draw counter saturates here
MaxDispose == 2     \* dispose calls per handle
MaxDrawTime == 1    \* longest time one draw takes, in clock units

\* ------------------------------------------------------- rational numbers
\* The shader and the placement transform work on fractions of the canvas
\* size; a number is kept exactly as <<numerator, denominator>>, den > 0.
Rat(n, d) == <<n, d>>
RAdd(a, b) == <<a[1] * b[2] + b[1] * a[2], a[2] * b[2]>>
RMul(a, b) == <<a[1] * b[1], a[2] * b[2]>>
RSub(a, b) == <<a[1] * b[2] - b[1] * a[2], a[2] * b[2]>>
RLe(a, b) == a[1] * b[2] <= b[1] * a[2]
RLt(a, b) == a[1] * b[2] < b[1] * a[2]
RFloor(a) == a[1] \div a[2]

\* --------------------------------------------------------- frame records
\* GifFrame as decompressFrames returns it: dims, patch (RGBA texels, row 0
\* on top), delay.  texture and worldMatrix are added by _createGifResources.
Texels(w, h) == (0..(w - 1)) \X (0..(h - 1))

DimsSet ==
    [width : 1..MaxDim, height : 1..MaxDim, left : 0..MaxOff, top : 0..MaxOff]

\* the patches of frame number k: every texel carries rgb = k, and the
\* first c texels (row by row from the top left) are fully transparent,
\* for c up to MaxHoles
PatchSet(k, w, h) ==
    { [t \in Texels(w, h) |->
          [rgb |-> k, a |-> IF t[2] * w + t[1] < c THEN 0 ELSE 1]] :
        c \in 0..(IF MaxHoles < w * h THEN MaxHoles ELSE w * h) }

GifFrame(d, p, dl) == [dims |-> d, patch |-> p, delay |-> dl]

\* frame sequences whose frames all cover a 1x1 canvas and differ in delay
DelayFrames(k) ==
    { GifFrame([width |-> 1, height |-> 1, left |-> 0, top |-> 0],
               [t \in Texels(1, 1) |-> [rgb |-> k, a |-> 1]], dl) :
        dl \in 0..MaxDelay }

\* the frames of position k that differ in placement and transparency; they
\* are shown without delay
PatchFrames(k) ==
    UNION { { GifFrame(d, p, 0) : p \in PatchSet(k, d.width, d.height) } :
            d \in DimsSet }

\* the frame that covers a canvas of MaxDim x MaxDim with opaque texels
FullFrame(k) ==
    GifFrame([width |-> MaxDim, height |-> MaxDim, left |-> 0, top |-> 0],
             [t \in Texels(MaxDim, MaxDim) |-> [rgb |-> k, a |-> 1]], 0)

RECURSIVE DelaySeqs(_)
\* all sequences of n frames on the 1x1 canvas
DelaySeqs(n) ==
    IF n = 0 THEN { <<>> }
    ELSE { Append(s, f) : s \in DelaySeqs(n - 1), f \in DelayFrames(n) }

\* the sequence of n full frames
FullSeq(n) == [k \in 1..n |-> FullFrame(k)]

\* all sequences of length n in which at most one frame is not the full frame
PatchSeqs(n) ==
    { FullSeq(n) } \cup
    UNION { { [FullSeq(n) EXCEPT ![i] = f] : f \in PatchFrames(i) } : i \in 1..n }

\* the canvas (logical screen) of the files PatchGifs are decoded from;
\* _parseGifData keeps only the frames and drops it
PatchCanvas == [width |-> MaxDim, height |-> MaxDim]

DelayGifs == UNION { DelaySeqs(n) : n \in 0..MaxFrames }
PatchGifs == UNION { PatchSeqs(n) : n \in 0..MaxFrames }

\* ------------------------------------------------- placement transform
\* _createGifResources, lines 175-184: the 3x3 matrix of a frame, relative
\* to the dims of the FIRST frame of the sequence (this._frames[0].dims).
WorldMatrix(dims, dims0) ==
    LET sx == Rat(dims.width, dims0.width)
        sy == Rat(dims.height, dims0.height)
        tx == Rat(dims.left, dims0.width)
        ty == Rat(dims0.height - (dims.top + dims.height), dims0.height)
        zero == Rat(0, 1)
        one == Rat(1, 1)
    IN  << sx, zero, tx,
           zero, sy, ty,
           zero, zero, one >>

\* ------------------------------------------------------------ the shader
\* the quad the EffectRenderer is built with: positions [1,1, 0,1, 0,0, 1,0]
QuadPositions == { <<1, 1>>, <<0, 1>>, <<0, 0>>, <<1, 0>> }

\* vertexShader: vec3(position, 1) * world, then from [0,1] to clip space.
\* setMatrix3x3 uploads the array column by column, and a row vector times
\* a matrix is the dot product with each column.
VertexShader(position, world) ==
    LET px == Rat(position[1], 1)
        py == Rat(position[2], 1)
        wx == RAdd(RAdd(RMul(px, world[1]), RMul(py, world[2])), world[3])
        wy == RAdd(RAdd(RMul(px, world[4]), RMul(py, world[5])), world[6])
    IN  [ vUV |-> position,
          clip |-> << RSub(RMul(wx, Rat(2, 1)), Rat(1, 1)),
                      RSub(RMul(wy, Rat(2, 1)), Rat(1, 1)) >> ]

\* viewport transform of the full render target: clip [-1,1] to [0, size]
ToPixels(c, size) == RMul(RMul(RAdd(c, Rat(1, 1)), Rat(1, 2)), Rat(size, 1))

\* the rectangle of the render target (in pixels, y upwards) that the quad
\* covers after the vertex stage
QuadRect(world, w, h) ==
    LET vs == { VertexShader(p, world) : p \in QuadPositions }
        xs == { ToPixels(v.clip[1], w) : v \in vs }
        ys == { ToPixels(v.clip[2], h) : v \in vs }
        lo(S) == CHOOSE a \in S : \A b \in S : RLe(a, b)
        hi(S) == CHOOSE a \in S : \A b \in S : RLe(b, a)
    IN  [x0 |-> lo(xs), x1 |-> hi(xs), y0 |-> lo(ys), y1 |-> hi(ys)]

\* a pixel is rasterized when its centre lies inside the quad
Center(i) == Rat(2 * i + 1, 2)
Covered(rect, x, y) ==
    /\ RLe(rect.x0, Center(x)) /\ RLt(Center(x), rect.x1)
    /\ RLe(rect.y0, Center(y)) /\ RLt(Center(y), rect.y1)

\* the `color` uniform: declared by the shader and listed in uniformNames,
\* but _drawPatch binds only `world` and `textureSampler`, so it keeps the
\* value a program has after linking, vec4(0)
colorUniform == [rgb |-> 0, a |-> 0]

RDiv(a, b) == <<a[1] * b[2], a[2] * b[1]>>
Clamp(i, lo, hi) == IF i < lo THEN lo ELSE IF i > hi THEN hi ELSE i

\* vUV at the centre of pixel (x, y): the quad's positions interpolated
\* linearly over the rectangle it covers
InterpolateUV(rect, x, y) ==
    << RDiv(RSub(Center(x), rect.x0), RSub(rect.x1, rect.x0)),
       RDiv(RSub(Center(y), rect.y0), RSub(rect.y1, rect.y0)) >>

\* texture2D(textureSampler, vUV) with nearest sampling and clamping; the
\* patch was uploaded with invertY (createRawTexture, line 168), so row 0
\* of the patch is the top row of the texture
Texture2D(frame, vUV) ==
    LET w == frame.dims.width
        h == frame.dims.height
        col == Clamp(RFloor(RMul(vUV[1], Rat(w, 1))), 0, w - 1)
        glRow == Clamp(RFloor(RMul(vUV[2], Rat(h, 1))), 0, h - 1)
    IN  frame.patch[<<col, (h - 1) - glRow>>]

\* fragmentShader: the pixel written for a fragment, or the old pixel when
\* the fragment is discarded
FragmentShader(frame, vUV, color, old) ==
    LET texel == Texture2D(frame, vUV)
        finalColor == [rgb |-> texel.rgb * color.rgb, a |-> texel.a * color.a]
    IN  IF color.a = 1 /\ finalColor.a = 0 THEN old ELSE finalColor

\* the value of a render target pixel that has never been drawn
Undrawn == [rgb |-> -1, a |-> -1]

Pixels(dims) == (0..(dims.width - 1)) \X (0..(dims.height - 1))

\* a render that clears the render target before it draws the quad
RenderCleared(surf, dims0, frame) ==
    LET rect == QuadRect(frame.worldMatrix, dims0.width, dims0.height)
        cleared == [rgb |-> 0, a |-> 0]
    IN  [ p \in Pixels(dims0) |->
            IF Covered(rect, p[1], p[2])
            THEN FragmentShader(frame, InterpolateUV(rect, p[1], p[2]),
                                colorUniform, cleared)
            ELSE cleared ]

\* EffectRenderer.render(wrapper, renderTarget): binds the render target
\* without clearing it and draws the quad; the onApply callback of
\* _drawPatch has bound the frame's worldMatrix and texture
Render(surf, dims0, frame) ==
    LET rect == QuadRect(frame.worldMatrix, dims0.width, dims0.height)
    IN  [ p \in Pixels(dims0) |->
            IF Covered(rect, p[1], p[2])
            THEN FragmentShader(frame, InterpolateUV(rect, p[1], p[2]),
                                colorUniform, surf[p])
            ELSE surf[p] ]

\* ------------------------------------------------------------------ state
VARIABLES
    gif,              \* the frame sequence the file at `url` decodes to
    loadState,        \* "pending", "loaded", "threw" or "failed"
    _frames,          \* Nullable<GifFrame[]>: [isNull, list]
    _currentFrame,    \* 0 for null, else the position in _frames.list
    _nextFrameIndex,  \* index (from 0) of the frame the next advance shows
    _previousDate,    \* PrecisionDate.Now at the last advance
    now,              \* PrecisionDate.Now
    effectReady,      \* _patchEffectWrapper.effect.isReady()
    _texture,         \* the InternalTexture of the handle: [hw, width, height, isReady]
    _renderTarget,    \* "undefined" or "created"
    surface,          \* the pixels of the render target, y upwards
    renderLoop,       \* _renderLoopCallback is in the engine's render loops
    created,          \* GPU resources created so far
    releaseLog,       \* the releases requested so far, in order
    onLoadCalls,      \* how often _onLoad was invoked (2 stands for more)
    callerSaw,        \* errors thrown to the code that called the handle
    uncaught,         \* errors thrown inside the engine's asynchronous callback
    disposeCalls,     \* how often dispose was called
    usedReleased,     \* a tick used a resource after its release
    advances,         \* how often the frame index advanced (saturating)
    draws,            \* how often render was issued (saturating)
    lastOp,           \* what the last step did: "tickWait", "tickNoDraw",
                      \* "tickDraw", or "other" when it was no tick
    currentViewport   \* engine.currentViewport, in fractions of the target

vars == << gif, loadState, _frames, _currentFrame, _nextFrameIndex,
           _previousDate, now, effectReady, _texture, _renderTarget, surface,
           renderLoop, created, releaseLog, onLoadCalls, callerSaw, uncaught,
           disposeCalls, usedReleased, advances, draws, lastOp,
           currentViewport >>

\* GPU resources, by what they back
Placeholder == <<"placeholder", 0>>
Accum == <<"accum", 0>>
EffectWrapperRes == <<"effectWrapper", 0>>
EffectRendererRes == <<"effectRenderer", 0>>
PatchRes(i) == <<"patch", i>>
\* the deregistration of the render loop callback, as an entry of releaseLog
LoopStop == <<"renderLoop", 0>>

Released(r) == \E k \in 1..Len(releaseLog) : releaseLog[k] = r
ReleaseCount(r) == Cardinality({ k \in 1..Len(releaseLog) : releaseLog[k] = r })

\* the viewport the EffectRenderer sets for its draw: the whole target
FullViewport ==
    [x |-> Rat(0, 1), y |-> Rat(0, 1), width |-> Rat(1, 1), height |-> Rat(1, 1)]

\* the viewports the host pipeline may have set when the handle is created
HostViewports ==
    { FullViewport,
      [x |-> Rat(0, 1), y |-> Rat(0, 1), width |-> Rat(1, 2), height |-> Rat(1, 1)] }

\* constructor: _createInternalTexture, _createRenderer,
\* _createRenderLoopCallback, _loadGifTexture (the load is left pending)
Constructed ==
    /\ loadState = "pending"
    /\ _frames = [isNull |-> TRUE, list |-> <<>>]
    /\ _currentFrame = 0
    /\ _nextFrameIndex = 0
    /\ _previousDate = 0
    /\ effectReady = FALSE
    /\ _texture = [hw |-> Placeholder, width |-> 1, height |-> 1, isReady |-> FALSE]
    /\ _renderTarget = "undefined"
    /\ surface = << >>
    /\ renderLoop = FALSE
    /\ created = { Placeholder, EffectWrapperRes, EffectRendererRes }
    /\ releaseLog = << >>
    /\ onLoadCalls = 0
    /\ callerSaw = {}
    /\ uncaught = {}
    /\ disposeCalls = 0
    /\ usedReleased = FALSE
    /\ advances = 0
    /\ draws = 0
    /\ lastOp = "other"

\* the handle is constructed at clock reading 0, for a file whose frames
\* differ in delay
Init ==
    /\ gif \in DelayGifs
    /\ now = 0
    /\ currentViewport \in HostViewports
    /\ Constructed

\* the handle is constructed late, for a file whose frames differ in
\* placement and transparency
InitPatch ==
    /\ gif \in PatchGifs
    /\ now = MaxTime - 1
    /\ currentViewport = FullViewport
    /\ Constructed

\* ------------------------------------------------------- the load callback
\* one texture, created for the first frame, shared by all frames
WithSharedTexture(list) ==
    [ i \in 1..Len(list) |->
        [ dims |-> list[i].dims, patch |-> list[i].patch, delay |-> list[i].delay,
          texture |-> PatchRes(1),
          worldMatrix |-> WorldMatrix(list[i].dims, list[1].dims) ] ]

\* _createGifResources, lines 160-188: texture and worldMatrix of each frame
WithResources(list) ==
    [ i \in 1..Len(list) |->
        [ dims |-> list[i].dims, patch |-> list[i].patch, delay |-> list[i].delay,
          texture |-> PatchRes(i),
          worldMatrix |-> WorldMatrix(list[i].dims, list[1].dims) ] ]

\* _createGifResources, lines 200-210: the placeholder is released, the
\* render target's texture is swapped into the handle, which is resized to
\* the first frame and marked not ready
SwappedTexture(dims0) ==
    [hw |-> Accum, width |-> dims0.width, height |-> dims0.height, isReady |-> FALSE]

\* the callback of _loadGifTexture on a sequence with at least one frame:
\* _parseGifData, _createGifResources, runRenderLoop
LoadCallback ==
    /\ loadState = "pending"
    /\ Len(gif) >= 1
    /\ loadState' = "loaded"
    /\ _frames' = [isNull |-> FALSE, list |-> WithResources(gif)]
    /\ _renderTarget' = "created"
    /\ surface' = [ p \in Pixels(gif[1].dims) |-> Undrawn ]
    /\ created' = created \cup { PatchRes(i) : i \in 1..Len(gif) } \cup { Accum }
    /\ releaseLog' = Append(releaseLog, _texture.hw)
    /\ _texture' = SwappedTexture(gif[1].dims)
    /\ renderLoop' = TRUE
    /\ lastOp' = "other"
    /\ UNCHANGED << gif, currentViewport, _currentFrame, _nextFrameIndex, _previousDate, now,
                    effectReady, onLoadCalls, callerSaw, uncaught, disposeCalls,
                    usedReleased, advances, draws >>

\* the same callback on an empty sequence: the loop of _createGifResources
\* does nothing and this._frames[0].dims (line 191) throws a TypeError inside
\* the engine's callback; runRenderLoop is not reached
LoadCallbackEmpty ==
    /\ loadState = "pending"
    /\ Len(gif) = 0
    /\ loadState' = "threw"
    /\ _frames' = [isNull |-> FALSE, list |-> << >>]
    /\ uncaught' = uncaught \cup { "TypeError" }
    /\ lastOp' = "other"
    /\ UNCHANGED << gif, currentViewport, _currentFrame, _nextFrameIndex, _previousDate, now,
                    effectReady, _texture, _renderTarget, surface, renderLoop,
                    created, releaseLog, onLoadCalls, callerSaw, disposeCalls,
                    usedReleased, advances, draws >>

\* the fetch fails (_loadFile is given no onError), or parseGIF /
\* decompressFrames throws on malformed data before _frames is assigned
LoadError ==
    /\ loadState = "pending"
    /\ \E kind \in { "FetchError", "DecodeError" } :
          uncaught' = uncaught \cup { kind }
    /\ loadState' = "failed"
    /\ lastOp' = "other"
    /\ UNCHANGED << gif, currentViewport, _frames, _currentFrame, _nextFrameIndex, _previousDate,
                    now, effectReady, _texture, _renderTarget, surface,
                    renderLoop, created, releaseLog, onLoadCalls, callerSaw,
                    disposeCalls, usedReleased, advances, draws >>

\* ---------------------------------------------------------- environment
\* the asynchronous compilation of the Patch shader completes
ShaderReady ==
    /\ ~effectReady
    /\ effectReady' = TRUE
    /\ lastOp' = "other"
    /\ UNCHANGED << gif, currentViewport, loadState, _frames, _currentFrame, _nextFrameIndex,
                    _previousDate, now, _texture, _renderTarget, surface,
                    renderLoop, created, releaseLog, onLoadCalls, callerSaw,
                    uncaught, disposeCalls, usedReleased, advances, draws >>

\* the clock moves on between two host events
TimePasses ==
    /\ now < MaxTime
    /\ now' = now + 1
    /\ lastOp' = "other"
    /\ UNCHANGED << gif, currentViewport, loadState, _frames, _currentFrame, _nextFrameIndex,
                    _previousDate, effectReady, _texture, _renderTarget, surface,
                    renderLoop, created, releaseLog, onLoadCalls, callerSaw,
                    uncaught, disposeCalls, usedReleased, advances, draws >>

\* ------------------------------------------------------------- the tick
Inc(c, cap) == IF c < cap THEN c + 1 ELSE c

\* the delay check with <= for <: a frame is kept one clock unit too long
KeepCurrentFrameInclusive(cur, list, nowv, prev) ==
    cur # 0 /\ (nowv - prev) <= list[cur].delay

\* the delay compared with the clock reading instead of the elapsed time
KeepCurrentFrameAbsolute(cur, list, nowv, prev) ==
    cur # 0 /\ nowv < list[cur].delay

\* _renderFrame, line 218: keep the current frame as long as its delay
KeepCurrentFrame(cur, list, nowv, prev) ==
    cur # 0 /\ (nowv - prev) < list[cur].delay

\* the index never moves
NextIndexStuck(i, n) == i

\* the index moved on by two frames
NextIndexSkip(i, n) == (i + 2) % n

\* the wrap with > for >=: the index reaches the length of the sequence
NextIndexLate(i, n) == IF i + 1 > n THEN 0 ELSE i + 1

\* _renderFrame, lines 232-235: the next frame index, back to 0 at the end
NextIndex(i, n) == IF i + 1 >= n THEN 0 ELSE i + 1

\* _drawPatch, lines 266-269: the handle is ready after the draw, and
\* _onLoad is invoked when it was not ready before
ReadyAfterDraw(tex) == [tex EXCEPT !.isReady = TRUE]

\* _onLoad invoked after every draw, without the isReady check
OnLoadEveryDraw(tex, calls) == Inc(calls, 2)

OnLoadAfterDraw(tex, calls) == IF ~tex.isReady THEN Inc(calls, 2) ELSE calls

\* the GPU resources a tick uses once it passed the delay check: the effect
\* wrapper is asked isReady(), and a draw uses the renderer, the frame's
\* patch texture and the render target
TickUses(frame, drawing) ==
    IF drawing
    THEN { EffectWrapperRes, EffectRendererRes, frame.texture, Accum }
    ELSE { EffectWrapperRes }

\* the draw leaves the viewport the renderer has set
ViewportNotRestored(old, rendered) == rendered

\* _drawPatch, lines 251 and 263: the viewport recorded before the draw is
\* set again after it
ViewportAfterDraw(old, rendered) == old

\* the render loop callback: _renderFrame, with _drawPatch inlined.
\* d is the time the draw takes (PrecisionDate.Now is read again afterwards)
RenderFrame(d) ==
    /\ renderLoop
    /\ IF KeepCurrentFrame(_currentFrame, _frames.list, now, _previousDate)
       THEN /\ lastOp' = "tickWait"
            /\ UNCHANGED << _currentFrame, _nextFrameIndex, _previousDate, now,
                            _texture, surface, onLoadCalls, usedReleased,
                            advances, draws, currentViewport >>
       ELSE LET frame == _frames.list[_nextFrameIndex + 1]
                drawing == effectReady
                elapsed == IF drawing THEN d ELSE 0
            IN  /\ _currentFrame' = _nextFrameIndex + 1
                /\ IF drawing
                   THEN /\ surface' = Render(surface, _frames.list[1].dims, frame)
                        /\ _texture' = ReadyAfterDraw(_texture)
                        /\ onLoadCalls' = OnLoadAfterDraw(_texture, onLoadCalls)
                        /\ draws' = Inc(draws, MaxDraws)
                        /\ currentViewport' =
                             ViewportAfterDraw(currentViewport, FullViewport)
                        /\ lastOp' = "tickDraw"
                   ELSE /\ lastOp' = "tickNoDraw"
                        /\ UNCHANGED << surface, _texture, onLoadCalls, draws,
                                        currentViewport >>
                /\ now' = now + elapsed
                /\ _previousDate' = now + elapsed
                /\ _nextFrameIndex' = NextIndex(_nextFrameIndex, Len(_frames.list))
                /\ advances' = Inc(advances, MaxAdvances)
                /\ usedReleased' =
                     (usedReleased \/ \E r \in TickUses(frame, drawing) : Released(r))
    /\ UNCHANGED << gif, loadState, _frames, effectReady, _renderTarget,
                    renderLoop, created, releaseLog, callerSaw, uncaught,
                    disposeCalls >>

\* --------------------------------------------------------------- dispose
\* the render loop stopped only after the effect wrapper is disposed
DisposeHelpersLoopLate(log) ==
    log \o << EffectWrapperRes, LoopStop, EffectRendererRes >>

\* lines 276-280: stopRenderLoop, then the effect wrapper and renderer
DisposeHelpers(log) ==
    log \o << LoopStop, EffectWrapperRes, EffectRendererRes >>

\* lines 283-285: the texture of every frame
DisposeFrames(log, list) == log \o [ i \in 1..Len(list) |-> list[i].texture ]

\* line 287: the render target releases the texture it was created with
DisposeRenderTarget(log) == Append(log, Accum)

\* line 290: the base class releases the internal texture of the handle
DisposeBase(log, tex) == Append(log, tex.hw)

\* dispose(); `for (let frame of this._frames)` throws a TypeError while
\* _frames is null, this._renderTarget.dispose() while it is undefined
Dispose ==
    /\ disposeCalls < MaxDispose
    /\ disposeCalls' = disposeCalls + 1
    /\ renderLoop' = FALSE
    /\ IF _frames.isNull
       THEN /\ releaseLog' = DisposeHelpers(releaseLog)
            /\ callerSaw' = callerSaw \cup { "TypeError" }
            /\ lastOp' = "other"
       ELSE IF _renderTarget = "undefined"
       THEN /\ releaseLog' = DisposeFrames(DisposeHelpers(releaseLog), _frames.list)
            /\ callerSaw' = callerSaw \cup { "TypeError" }
            /\ lastOp' = "other"
       ELSE /\ releaseLog' =
                 DisposeBase(DisposeRenderTarget(
                     DisposeFrames(DisposeHelpers(releaseLog), _frames.list)),
                     _texture)
            /\ lastOp' = "other"
            /\ UNCHANGED callerSaw
    /\ UNCHANGED << gif, currentViewport, loadState, _frames, _currentFrame, _nextFrameIndex,
                    _previousDate, now, effectReady, _texture, _renderTarget,
                    surface, created, onLoadCalls, uncaught, usedReleased,
                    advances, draws >>

\* ------------------------------------------------------- specifications
\* the host runs the render loop callback, while the clock is in its range
Tick == \E d \in 0..MaxDrawTime : now + d <= MaxTime /\ RenderFrame(d)

Next ==
    \/ LoadCallback
    \/ LoadCallbackEmpty
    \/ LoadError
    \/ ShaderReady
    \/ TimePasses
    \/ Tick
    \/ Dispose

\* frame sequences that differ in length and delays, on a 1x1 canvas
Spec == Init /\ [][Next]_vars

\* frame sequences that differ in length, placement and transparency
SpecPatch == InitPatch /\ [][Next]_vars

\* ---------------------------------------------- the end-to-end scenario
\* three frames with delays 100, 50 and 200 ms, shown by a host that runs
\* its render loop every 16 ms; the clock unit is 1 ms
Scenario == [delays |-> <<100, 50, 200>>, period |-> 16, horizon |-> 400]

ScenarioGif ==
    [ k \in 1..Len(Scenario.delays) |->
        GifFrame([width |-> 1, height |-> 1, left |-> 0, top |-> 0],
                 [t \in Texels(1, 1) |-> [rgb |-> k, a |-> 1]],
                 Scenario.delays[k]) ]

InitScenario ==
    /\ gif = ScenarioGif
    /\ now = 0
    /\ currentViewport = FullViewport
    /\ Constructed

\* the shader compilation completes between two ticks
ScenarioShaderReady == lastOp = "other" /\ ShaderReady

\* the host runs the render loop callback once per period
ScenarioTick == lastOp = "other" /\ \E d \in 0..MaxDrawTime : RenderFrame(d)

\* after the tick the clock moves on to the start of the next period
PeriodPasses ==
    /\ lastOp \in { "tickWait", "tickNoDraw", "tickDraw" }
    /\ now + Scenario.period <= Scenario.horizon
    /\ now' = ((now \div Scenario.period) + 1) * Scenario.period
    /\ lastOp' = "other"
    /\ UNCHANGED << gif, currentViewport, loadState, _frames, _currentFrame,
                    _nextFrameIndex, _previousDate, effectReady, _texture,
                    _renderTarget, surface, renderLoop, created, releaseLog,
                    onLoadCalls, callerSaw, uncaught, disposeCalls,
                    usedReleased, advances, draws >>

NextScenario ==
    \/ LoadCallback
    \/ ScenarioShaderReady
    \/ ScenarioTick
    \/ PeriodPasses

\* the load completes at time 0 and the first tick shows frame 0 at once
SpecScenario == InitScenario /\ [][NextScenario]_vars

\* ------------------------------------------------- playback without end
\* a load that succeeds with at least one frame
InitLive ==
    /\ gif \in DelayGifs
    /\ Len(gif) >= 1
    /\ now = 0
    /\ currentViewport = FullViewport
    /\ Constructed

\* _renderFrame reads the clock only as Now - _previousDate and compares it
\* with delays of at most MaxDelay, so a clock that runs for ever is kept as
\* a pair of readings: at MaxTime both readings are moved down, and an
\* elapsed time above MaxDelay is kept as MaxDelay
ElapsedKept(nowv, prev) ==
    IF nowv - prev > MaxDelay THEN MaxDelay ELSE nowv - prev

\* the clock moves on by one unit
ClockRuns ==
    /\ IF now < MaxTime
       THEN /\ now' = now + 1
            /\ UNCHANGED _previousDate
       ELSE /\ now' = ElapsedKept(now, _previousDate) + 1
            /\ _previousDate' = 0
    /\ lastOp' = "other"
    /\ UNCHANGED << gif, currentViewport, loadState, _frames, _currentFrame,
                    _nextFrameIndex, effectReady, _texture, _renderTarget,
                    surface, renderLoop, created, releaseLog, onLoadCalls,
                    callerSaw, uncaught, disposeCalls, usedReleased, advances,
                    draws >>

\* the load succeeds, the shader compiles, the host ticks and nobody calls
\* dispose
NextLive ==
    \/ LoadCallback
    \/ ShaderReady
    \/ ClockRuns
    \/ Tick

\* what a tick changes besides the pixels of the surface
tickVars == << lastOp, _currentFrame, _nextFrameIndex, _previousDate, now,
               _texture, onLoadCalls, advances, draws, currentViewport >>

\* the engine delivers the load callback, finishes the compilation, keeps
\* calling the render loop, and the clock keeps running
SpecLive ==
    /\ InitLive
    /\ [][NextLive]_vars
    /\ WF_vars(LoadCallback)
    /\ WF_vars(ShaderReady)
    /\ WF_vars(ClockRuns)
    /\ WF_tickVars(Tick)

\* ------------------------------------------------------------ properties
TickOps == { "tickWait", "tickNoDraw", "tickDraw" }

\* the step was a tick that advanced to the frame at _nextFrameIndex
Advanced ==
    /\ lastOp' \in { "tickNoDraw", "tickDraw" }
    /\ _currentFrame' = _nextFrameIndex + 1
    /\ _previousDate' = now'

\* the step was a tick that left the scheduler where it was
NotAdvanced ==
    /\ lastOp' = "tickWait"
    /\ UNCHANGED << _currentFrame, _nextFrameIndex, _previousDate >>

\* C1: with a current frame of delay d, a tick on which
\* now - (time of the last advance) < d does not advance, and a tick on
\* which it is >= d advances.
C1_DelayRespected ==
    [][ (lastOp' \in TickOps /\ _currentFrame # 0) =>
          LET d == _frames.list[_currentFrame].delay
          IN  IF now - _previousDate < d THEN NotAdvanced ELSE Advanced ]_vars

\* C1 witness: the handle advanced from a first frame of the longest delay
\* to the second frame, so it waited that delay out
C1_Witness ==
    /\ lastOp = "tickDraw"
    /\ _currentFrame = 2
    /\ _frames.list[1].delay = MaxDelay
    /\ _previousDate >= MaxDelay

\* C2: with N >= 1 frames the frame index is in [0, N), and after k
\* advances it is k mod N: N-1 is followed by 0 and N advances return to
\* the starting index.
C2_CyclicIndex ==
    LET N == Len(_frames.list)
    IN  N >= 1 =>
          /\ _nextFrameIndex \in 0..(N - 1)
          /\ advances < MaxAdvances => _nextFrameIndex = advances % N

\* C2 witness: a sequence of two frames or more was advanced through once
\* and is back at index 0
C2_Witness ==
    /\ Len(_frames.list) >= 2
    /\ advances = Len(_frames.list)
    /\ _nextFrameIndex = 0

\* C3: the readiness flag is false until the first draw and true from then
\* on, and onLoad is invoked exactly once, by the tick of that first draw.
C3_ReadyOnce ==
    /\ [](_texture.isReady <=> draws >= 1)
    /\ [](onLoadCalls = IF draws >= 1 THEN 1 ELSE 0)
    /\ [][_texture.isReady => _texture'.isReady]_vars
    /\ [][onLoadCalls' # onLoadCalls => (lastOp' = "tickDraw" /\ draws = 0)]_vars

\* C3 witness: a second draw happened, the handle is ready and onLoad was
\* invoked once
C3_Witness ==
    /\ draws >= 2
    /\ _texture.isReady
    /\ onLoadCalls = 1

\* the sub-rectangle of the canvas a frame's patch covers, from its dims
\* (rows counted from the top); p is a pixel of the surface, y upwards
InPatchRect(dims, dims0, p) ==
    LET row == (dims0.height - 1) - p[2]
    IN  /\ dims.left <= p[1] /\ p[1] < dims.left + dims.width
        /\ dims.top <= row /\ row < dims.top + dims.height

\* C4: a draw of frame i leaves every pixel of the accumulation surface
\* outside the frame's sub-rectangle as it was before the draw.
C4_Accumulation ==
    [][ lastOp' = "tickDraw" =>
          \A p \in DOMAIN surface :
              ~InPatchRect(_frames.list[_currentFrame'].dims,
                           _frames.list[1].dims, p)
              => surface'[p] = surface[p] ]_vars

\* C4 witness: a draw wrote part of the surface and left a pixel outside
\* the drawn frame's sub-rectangle that was never drawn
C4_Witness ==
    /\ lastOp = "tickDraw"
    /\ \E p \in DOMAIN surface :
          /\ surface[p] = Undrawn
          /\ ~InPatchRect(_frames.list[_currentFrame].dims, _frames.list[1].dims, p)
    /\ \E q \in DOMAIN surface : surface[q] # Undrawn

\* dispose was called while the load was pending: the deregistration of
\* the render loop is logged before the release of the placeholder
DisposedWhilePending ==
    Len(releaseLog) >= 1 /\ releaseLog[1] = LoopStop

ConstructorResources == { Placeholder, EffectWrapperRes, EffectRendererRes }

\* C5: when dispose is called while the load is pending, dispose throws
\* nothing, and afterwards no GPU resource is created, no render loop
\* callback is registered and no tick uses a released resource.
C5_DisposeWhilePending ==
    DisposedWhilePending =>
        /\ callerSaw = {}
        /\ created \subseteq ConstructorResources
        /\ ~renderLoop
        /\ ~usedReleased

GifResources == { r \in created : r[1] \in { "patch", "accum" } }

\* C6: once dispose was called every patch texture and the accumulation
\* surface are released, no resource is released more than once, and no
\* tick uses a released resource.
C6_ReleaseOnce ==
    /\ disposeCalls >= 1 => \A r \in GifResources : Released(r)
    /\ \A r \in created : ReleaseCount(r) <= 1
    /\ ~usedReleased

\* C7: a tick whose draw is skipped because the shader is not ready leaves
\* the frame index, the current frame and the last-advance time as they
\* were, and surfaces no error.
C7_SkipRetries ==
    [][ lastOp' = "tickNoDraw" =>
          UNCHANGED << _nextFrameIndex, _currentFrame, _previousDate,
                       callerSaw, uncaught >> ]_vars

\* C8: when decoding yields no frame, a "no frames" error reaches the
\* caller, and the handle is not left unready with no render loop callback
\* and nothing reported.
C8_NoFramesReported ==
    (~_frames.isNull /\ Len(_frames.list) = 0) =>
        /\ "NoFrames" \in callerSaw
        /\ ~(~_texture.isReady /\ ~renderLoop /\ callerSaw = {})

\* C9: a failure of the fetch or of the decoder reaches the caller of the
\* handle, and the load is not started again.
C9_FailurePropagates ==
    /\ [](loadState = "failed" =>
            callerSaw \cap { "FetchError", "DecodeError" } # {})
    /\ [][loadState = "failed" => loadState' = "failed"]_vars

\* C10: while the readiness flag is false the handle's texture is the 1x1
\* placeholder.
C10_PlaceholderUntilReady ==
    ~_texture.isReady =>
        /\ _texture.hw = Placeholder
        /\ _texture.width = 1
        /\ _texture.height = 1

\* what one call of dispose appended to releaseLog
DisposeSuffix == SubSeq(releaseLog', Len(releaseLog) + 1, Len(releaseLog'))

\* the place of a release in the order the specification gives: callback,
\* patch textures, effect wrapper and renderer, accumulation surface
SpecRank(r) ==
    IF r = LoopStop THEN 0
    ELSE IF r[1] = "patch" THEN 1
    ELSE IF r \in { EffectWrapperRes, EffectRendererRes } THEN 2
    ELSE 3

\* the place of a release in the order callback, effect wrapper, effect
\* renderer, patch textures, accumulation surface
HelpersFirstRank(r) ==
    IF r = LoopStop THEN 0
    ELSE IF r = EffectWrapperRes THEN 1
    ELSE IF r = EffectRendererRes THEN 2
    ELSE IF r[1] = "patch" THEN 3
    ELSE 4

\* C11 as stated: dispose deregisters the callback, then releases the
\* patch textures, then the effect wrapper and renderer, then the
\* accumulation surface.
C11_SpecOrder ==
    [][ disposeCalls' # disposeCalls =>
          \A i, j \in 1..Len(DisposeSuffix) :
              i < j => SpecRank(DisposeSuffix[i]) <= SpecRank(DisposeSuffix[j]) ]_vars

\* C11 amended: dispose deregisters the callback first, then releases the
\* effect wrapper and the effect renderer, then the patch textures, then
\* the accumulation surface.
C11_HelpersFirstOrder ==
    [][ disposeCalls' # disposeCalls =>
          /\ Len(DisposeSuffix) >= 1 /\ DisposeSuffix[1] = LoopStop
          /\ \A i, j \in 1..Len(DisposeSuffix) :
                i < j => HelpersFirstRank(DisposeSuffix[i])
                           <= HelpersFirstRank(DisposeSuffix[j]) ]_vars

\* C11 witness: a dispose released patch textures and the accumulation
\* surface after the helpers
C11_Witness ==
    /\ disposeCalls >= 1
    /\ Released(PatchRes(1))
    /\ Released(Accum)
    /\ Released(EffectRendererRes)

\* C18: a tick leaves the host's viewport as it found it, whether it drew,
\* waited for the delay or skipped the draw.
C18_ViewportRestored ==
    [][ lastOp' \in TickOps => currentViewport' = currentViewport ]_vars

\* C18 witness: a tick drew while the host's viewport was not the one the
\* renderer sets for the render target
C18_Witness ==
    /\ lastOp = "tickDraw"
    /\ currentViewport # FullViewport

RECURSIVE SumTo(_, _)
\* the sum of the first k entries of a sequence of numbers
SumTo(seq, k) == IF k = 0 THEN 0 ELSE SumTo(seq, k - 1) + seq[k]

\* the step is the k-th advance after the first display of frame 0
AdvanceNo(k) ==
    /\ lastOp' \in { "tickNoDraw", "tickDraw" }
    /\ advances = k
    /\ advances' = k + 1

\* the frame an advance shows after k earlier advances
ScenarioFrame(k) == (k % Len(Scenario.delays)) + 1

\* C12 as stated: counted from the first display (time 0), the advance to
\* frame 1 falls within one tick of 100 ms, the advance to frame 2 within
\* one tick of 150 ms and the return to frame 0 within one tick of 350 ms.
C12_TotalsWithinOneTick ==
    [][ \A k \in 1..Len(Scenario.delays) :
          AdvanceNo(k) =>
              /\ _currentFrame' = ScenarioFrame(k)
              /\ now >= SumTo(Scenario.delays, k) - Scenario.period
              /\ now <= SumTo(Scenario.delays, k) + Scenario.period ]_vars

\* C12 amended: each advance falls on the first tick at which the delay of
\* the shown frame has elapsed since the previous advance, less than one
\* tick late; the lateness adds up, so the k-th advance comes up to k ticks
\* (and k draw times) after the sum of the delays.
C12_EachWithinOneTick ==
    [][ \A k \in 1..Len(Scenario.delays) :
          AdvanceNo(k) =>
              /\ _currentFrame' = ScenarioFrame(k)
              /\ now - _previousDate >= Scenario.delays[k]
              /\ now - _previousDate < Scenario.delays[k] + Scenario.period
              /\ now >= SumTo(Scenario.delays, k)
              /\ now <= SumTo(Scenario.delays, k)
                          + k * (Scenario.period + MaxDrawTime) ]_vars

\* C12 witness: the third advance brought the scenario back to frame 0,
\* more than one tick after 350 ms
C12_Witness ==
    /\ gif = ScenarioGif
    /\ advances = Len(Scenario.delays) + 1
    /\ _currentFrame = 1
    /\ lastOp \in { "tickNoDraw", "tickDraw" }
    /\ now > SumTo(Scenario.delays, Len(Scenario.delays)) + Scenario.period

REq(a, b) == a[1] * b[2] = b[1] * a[2]

\* the frame covers the whole canvas of the file
FullCanvas(dims) ==
    /\ dims.left = 0 /\ dims.top = 0
    /\ dims.width = PatchCanvas.width /\ dims.height = PatchCanvas.height

\* the patch lies inside the canvas of the file
InsideCanvas(dims) ==
    /\ dims.left + dims.width <= PatchCanvas.width
    /\ dims.top + dims.height <= PatchCanvas.height

Identity3x3 == << Rat(1, 1), Rat(0, 1), Rat(0, 1),
                  Rat(0, 1), Rat(1, 1), Rat(0, 1),
                  Rat(0, 1), Rat(0, 1), Rat(1, 1) >>

\* C13: the placement transform of every loaded frame that covers the
\* whole canvas at offset (0, 0) is the identity matrix.
C13_FullFrameIdentity ==
    ~_frames.isNull =>
        \A i \in 1..Len(_frames.list) :
            FullCanvas(_frames.list[i].dims) =>
                \A j \in 1..9 : REq(_frames.list[i].worldMatrix[j], Identity3x3[j])

\* the sub-rectangle of the canvas a frame is meant for, in pixels with y
\* upwards: the vertical offset counts from the top of the canvas
TargetRect(dims) ==
    [ x0 |-> Rat(dims.left, 1),
      x1 |-> Rat(dims.left + dims.width, 1),
      y0 |-> Rat(PatchCanvas.height - (dims.top + dims.height), 1),
      y1 |-> Rat(PatchCanvas.height - dims.top, 1) ]

SameRect(r, t) ==
    /\ REq(r.x0, t.x0) /\ REq(r.x1, t.x1)
    /\ REq(r.y0, t.y0) /\ REq(r.y1, t.y1)

\* C14: once a sequence whose patches all lie inside the canvas is loaded,
\* the accumulation surface has the size of the canvas and the transform
\* of every frame maps the unit quad to exactly the frame's sub-rectangle
\* of it, the vertical offset inverted.
C14_QuadOnTargetRect ==
    ( /\ loadState = "loaded"
      /\ \A i \in 1..Len(gif) : InsideCanvas(gif[i].dims) )
    => /\ DOMAIN surface = Pixels(PatchCanvas)
       /\ \A i \in 1..Len(_frames.list) :
             SameRect(QuadRect(_frames.list[i].worldMatrix,
                               PatchCanvas.width, PatchCanvas.height),
                      TargetRect(_frames.list[i].dims))

\* C15: a draw leaves every pixel of the accumulation surface whose
\* fragment samples a fully transparent texel of the patch as it was.
C15_TransparentTexelKeeps ==
    [][ lastOp' = "tickDraw" =>
          LET frame == _frames.list[_currentFrame']
              dims0 == _frames.list[1].dims
              rect == QuadRect(frame.worldMatrix, dims0.width, dims0.height)
          IN  \A p \in DOMAIN surface :
                ( /\ Covered(rect, p[1], p[2])
                  /\ Texture2D(frame, InterpolateUV(rect, p[1], p[2])).a = 0 )
                => surface'[p] = surface[p] ]_vars

\* C16: a step advances the frame index at most once: it either leaves the
\* current frame and the next index alone or is a tick that shows the frame
\* at the next index and moves the index on by one; the next index is
\* always the successor of the current frame, so no frame is passed over.
C16_OneAdvancePerTick ==
    [][ /\ \/ UNCHANGED << _currentFrame, _nextFrameIndex >>
           \/ /\ lastOp' \in { "tickNoDraw", "tickDraw" }
              /\ _currentFrame' = _nextFrameIndex + 1
              /\ _nextFrameIndex' = (_nextFrameIndex + 1) % Len(_frames.list)
        /\ _currentFrame' # 0 =>
              _nextFrameIndex' = _currentFrame' % Len(_frames.list) ]_vars

\* C16 witness: two frames without delay were shown by two ticks at the
\* same clock reading, one frame per tick
C16_Witness ==
    /\ Len(gif) = 2
    /\ gif[1].delay = 0 /\ gif[2].delay = 0
    /\ now = 0
    /\ advances = 2
    /\ _currentFrame = 2
    /\ lastOp \in { "tickNoDraw", "tickDraw" }

\* C17: resources are created only by the load callback, while the load is
\* pending, and the render loop runs only when the frame list is there,
\* every frame has a texture of its own that was created and a transform,
\* and the accumulation surface was created.
C17_ResourcesBeforeLoop ==
    [][ /\ created' # created => (loadState = "pending" /\ loadState' = "loaded")
        /\ renderLoop' =>
              /\ ~_frames'.isNull
              /\ Len(_frames'.list) >= 1
              /\ _renderTarget' = "created"
              /\ Accum \in created'
              /\ \A i \in 1..Len(_frames'.list) :
                    /\ _frames'.list[i].texture = PatchRes(i)
                    /\ PatchRes(i) \in created'
                    /\ _frames'.list[i].worldMatrix =
                         WorldMatrix(_frames'.list[i].dims, _frames'.list[1].dims)
        /\ (renderLoop /\ renderLoop') => _frames' = _frames ]_vars

\* C17 witness: a tick ran on a sequence of two frames
C17_Witness ==
    /\ renderLoop
    /\ Len(_frames.list) = 2
    /\ lastOp \in TickOps
    /\ created = ConstructorResources \cup GifResources

\* C19: every draw composites the successor of the frame drawn before it,
\* and the first draw (the one that makes the texture ready) composites
\* frame 0.
C19_DrawsInOrder ==
    [][ lastOp' = "tickDraw" =>
          _currentFrame' = IF ~_texture.isReady THEN 1
                           ELSE (_currentFrame % Len(_frames.list)) + 1 ]_vars

\* C20: when the load succeeds with at least one frame, the shader becomes
\* ready, the host keeps ticking and the clock keeps running, the texture
\* eventually is ready with onLoad invoked, and every frame of the sequence
\* is drawn again and again.
C20_PlaysForEver ==
    /\ <>(_texture.isReady /\ onLoadCalls = 1)
    /\ \A i \in 1..MaxFrames :
          []<>(i <= Len(gif) => (lastOp = "tickDraw" /\ _currentFrame = i))

\* C20 witness: after the end of a sequence of two frames the first frame
\* was drawn once more, the texture being ready and onLoad invoked once
C20_Witness ==
    /\ Len(gif) = 2
    /\ advances >= 3
    /\ draws >= 2
    /\ _currentFrame = 1
    /\ lastOp = "tickDraw"
    /\ _texture.isReady
    /\ onLoadCalls = 1

====
